---- MODULE Spec2Model ----
(***************************************************************************)
(* Camera trap image name extractor: process_directory, format_image_id,   *)
(* extract_camera_number and main of                                       *)
(* src/src/camera_trap_image_name_extractor/__init__.py.                   *)
(*                                                                         *)
(* A Python str is a sequence of one-character strings; a pathlib Path is  *)
(* the sequence of its components (the anchor "/" is left out: the name of *)
(* "/" and the name of "." are both the empty string, and the parent of    *)
(* either is itself).                                                      *)
(***************************************************************************)
EXTENDS Integers, Sequences, FiniteSets, TLC

\* ------------------------------------------------------------ bounds
MaxFiles == 2
MaxTokens == 7

\* ------------------------------------------------------------ str
\* Code points of the characters the model's names are written with
\* (str comparison orders by code point).
Ord ==
  ("\t" :> 9) @@ (" " :> 32) @@ ("-" :> 45) @@ ("." :> 46) @@ ("/" :> 47) @@
  ("1" :> 49) @@ ("2" :> 50) @@ ("3" :> 51) @@ ("4" :> 52) @@ ("5" :> 53) @@
  ("6" :> 54) @@ ("7" :> 55) @@
  ("A" :> 65) @@ ("B" :> 66) @@ ("E" :> 69) @@ ("F" :> 70) @@ ("G" :> 71) @@
  ("I" :> 73) @@ ("J" :> 74) @@ ("M" :> 77) @@ ("P" :> 80) @@ ("T" :> 84) @@
  ("X" :> 88) @@ ("_" :> 95) @@
  ("b" :> 98) @@ ("d" :> 100) @@ ("e" :> 101) @@ ("g" :> 103) @@
  ("h" :> 104) @@ ("j" :> 106) @@ ("k" :> 107) @@ ("n" :> 110) @@
  ("o" :> 111) @@ ("p" :> 112) @@ ("r" :> 114) @@ ("t" :> 116) @@
  ("u" :> 117) @@ ("w" :> 119) @@ ("x" :> 120)

\* str.lower on one character.
LowerChar(c) ==
  IF Ord[c] >= 65 /\ Ord[c] <= 90
    THEN CHOOSE d \in DOMAIN Ord : Ord[d] = Ord[c] + 32
    ELSE c

\* str.lower
Lower(s) == [i \in 1..Len(s) |-> LowerChar(s[i])]

\* str.isspace on one character, as str.split() uses it.
IsSpace(c) == c \in {" ", "\t"}

\* a < b on str: the first differing character decides, a proper prefix is less.
StrLess(a, b) ==
  \E i \in 1..(Len(b)) :
    /\ \A j \in 1..(i - 1) : j <= Len(a) /\ a[j] = b[j]
    /\ \/ i = Len(a) + 1
       \/ i <= Len(a) /\ Ord[a[i]] < Ord[b[i]]

\* a <= b on str.
StrLeq(a, b) == a = b \/ StrLess(a, b)

\* str.rfind('.'), 1-based; 0 when there is none.
RFindDot(s) ==
  IF \E i \in 1..Len(s) : s[i] = "."
    THEN CHOOSE i \in 1..Len(s) : s[i] = "." /\ \A j \in (i + 1)..Len(s) : s[j] # "."
    ELSE 0

\* PurePath.suffix of a final component: name[i:] when 0 < i < len(name) - 1
\* for the 0-based i = name.rfind('.').
Suffix(name) ==
  LET i == RFindDot(name)
  IN  IF i > 1 /\ i < Len(name) THEN SubSeq(name, i, Len(name)) ELSE <<>>

\* PurePath.stem of a final component.
Stem(name) ==
  LET i == RFindDot(name)
  IN  IF i > 1 /\ i < Len(name) THEN SubSeq(name, 1, i - 1) ELSE name

\* str.split() with no argument: the maximal runs of non-whitespace, in order.
RECURSIVE SplitFrom(_, _, _)
SplitFrom(s, i, cur) ==
  IF i > Len(s)
    THEN IF cur = <<>> THEN <<>> ELSE <<cur>>
    ELSE IF IsSpace(s[i])
      THEN IF cur = <<>> THEN SplitFrom(s, i + 1, <<>>)
                         ELSE <<cur>> \o SplitFrom(s, i + 1, <<>>)
      ELSE SplitFrom(s, i + 1, Append(cur, s[i]))

Split(s) == SplitFrom(s, 1, <<>>)

\* ------------------------------------------------------------ pathlib
\* PurePath.parent: the path without its last component; the parent of the
\* empty path (or of the anchor) is itself.
Parent(p) == IF p = <<>> THEN p ELSE SubSeq(p, 1, Len(p) - 1)

\* PurePath.name: the last component, '' when there is none.
Name(p) == IF p = <<>> THEN <<>> ELSE p[Len(p)]

\* str(path) of a relative path: components joined by "/", "." when empty.
RECURSIVE JoinSlash(_)
JoinSlash(p) ==
  IF p = <<>> THEN <<>>
  ELSE IF Len(p) = 1 THEN p[1]
  ELSE p[1] \o <<"/">> \o JoinSlash(Tail(p))

PathStr(p) == IF p = <<>> THEN <<".">> ELSE JoinSlash(p)

\* bool(path): PurePath defines neither __bool__ nor __len__, so every path
\* object is truthy.
Truthy(p) == TRUE

\* ------------------------------------------------------------ format_image_id
\* format_image_id with the length test off by one (> 6 for >= 6).
format_image_id_gt(file_path, camera_id) ==
  LET name_parts == Split(Stem(Name(file_path)))
  IN  IF Len(name_parts) > 6
        THEN camera_id \o <<"_">>
             \o name_parts[1] \o <<"-">> \o name_parts[2] \o <<"-">> \o name_parts[3]
             \o <<"_">>
             \o name_parts[4] \o <<"-">> \o name_parts[5] \o <<"-">> \o name_parts[6]
             \o <<"_", "J", "P", "E", "G">>
        ELSE Name(file_path)

\* Lines 16-24.
format_image_id(file_path, camera_id) ==
  LET name_parts == Split(Stem(Name(file_path)))
  IN  IF Len(name_parts) >= 6
        THEN camera_id \o <<"_">>
             \o name_parts[1] \o <<"-">> \o name_parts[2] \o <<"-">> \o name_parts[3]
             \o <<"_">>
             \o name_parts[4] \o <<"-">> \o name_parts[5] \o <<"-">> \o name_parts[6]
             \o <<"_", "J", "P", "E", "G">>
        ELSE Name(file_path)

\* ------------------------------------------------------------ extract_camera_number
\* The three .parent steps and .name never raise, so the except branch that
\* returns "unknown" is never taken.
extract_camera_number(file_path) == Name(Parent(Parent(Parent(file_path))))


\* ------------------------------------------------------------ names
Unknown == <<"u", "n", "k", "n", "o", "w", "n">>
ExtJpg  == <<".", "j", "p", "g">>
ExtJpeg == <<".", "j", "p", "e", "g">>

\* Directory names of the scanned trees.
DirA == <<"A">>
DirB == <<"B">>
DirF == <<"F">>
DirT == <<"3">>
DirX == <<"X">>

\* File names of the scanned trees.
NameSixJpg   == <<"1", " ", "2", " ", "3", " ", "4", " ", "5", " ", "6", ".", "j", "p", "g">>
NameSixJpeg  == <<"1", " ", "2", " ", "3", " ", "4", " ", "5", " ", "6", ".", "j", "p", "e", "g">>
NameSevenJPG == <<"1", " ", "2", " ", "3", " ", "4", " ", "5", " ", "6", " ", "7", ".", "J", "P", "G">>
NameImg      == <<"I", "M", "G", "_", "1", ".", "j", "p", "g">>
NameUpper    == <<"b", ".", "J", "P", "E", "G">>
NameHidden   == <<".", "h", ".", "j", "p", "g">>
NameText     == <<"n", ".", "t", "x", "t">>
NameDirJpg   == <<"d", ".", "j", "p", "g">>

\* The --input-dir arguments: ".", "d" and "/h/u/d".
InputDirs == { <<>>, << <<"d">> >>, << <<"h">>, <<"u">>, <<"d">> >> }

File(dir, name) == [dir |-> dir, name |-> name, kind |-> "file"]
Dir(dir, name)  == [dir |-> dir, name |-> name, kind |-> "dir"]

\* The entries a scanned tree is drawn from: files 0 to 4 directory levels
\* below the root, and a directory whose name ends in .jpg.
Pool ==
  { File(<<>>, NameSixJpg), File(<<>>, NameSixJpeg), File(<<>>, NameImg),
    File(<<DirA>>, NameUpper), Dir(<<DirA>>, NameDirJpg),
    File(<<DirA, DirF>>, NameSevenJPG),
    File(<<DirA, DirF, DirT>>, NameSixJpg),
    File(<<DirA, DirF, DirT>>, NameSixJpeg),
    File(<<DirA, DirF, DirT>>, NameImg),
    File(<<DirA, DirF, DirT>>, NameHidden),
    File(<<DirA, DirF, DirT>>, NameText),
    File(<<DirB, DirF, DirT, DirX>>, NameSixJpg) }

\* The directories a set of entries lies in, each an entry of the tree too.
Ancestors(S) ==
  UNION { { Dir(SubSeq(e.dir, 1, k - 1), e.dir[k]) : k \in 1..Len(e.dir) } : e \in S }

\* The trees a run scans: at most MaxFiles entries of the pool and the
\* directories they lie in.
Trees ==
  { S \cup Ancestors(S) : S \in { S \in SUBSET Pool : Cardinality(S) <= MaxFiles } }

\* ------------------------------------------------------------ state
VARIABLES
  input_dir,    \* args.input_dir
  exists,       \* input_dir.exists()
  tree,         \* the entries input_dir.rglob('*') yields
  bad,          \* the files whose processing raises inside the try block;
                \* a property of the file system, the same in both runs
  pc,           \* position in main / process_directory
  visited,      \* the entries the for loop has taken from rglob
  df,           \* the DataFrame, a sequence of rows
  total_files,  \* the pre-count handed to tqdm
  pbar_n,       \* pbar.update calls so far
  reported,     \* files an "Error processing" line was printed for
  out_dir_made, \* output_file.parent was created
  out_file,     \* the CSV file of this run: whether written, and its rows
  exit_code,    \* the status main exits with ("0" or "1"), Running before
  run,          \* 1 for the first run on the tree, 2 for the second
  prev_file,    \* the CSV file the first run wrote
  fmt_tokens,   \* format_image_id alone: the tokens the name is built from
  fmt_name,     \* format_image_id alone: the file name
  fmt_cam,      \* format_image_id alone: camera_id
  fmt_out       \* format_image_id alone: the result, NoResult before the call

vars ==
  << input_dir, exists, tree, bad, pc, visited, df, total_files, pbar_n,
     reported, out_dir_made, out_file, exit_code, run, prev_file,
     fmt_tokens, fmt_name, fmt_cam, fmt_out >>

env_vars == << input_dir, exists, tree, bad >>
fmt_vars == << fmt_tokens, fmt_name, fmt_cam, fmt_out >>

NoFile == [written |-> FALSE, rows |-> <<>>]
NoResult == << "no result" >>
Running == "running"

\* ------------------------------------------------------------ process_directory
\* The filter without .lower() on the suffix.
Qualifies_nolower(e) ==
  /\ e.kind = "file"
  /\ ~(Len(e.name) > 0 /\ e.name[1] = ".")
  /\ Suffix(e.name) \in {ExtJpg, ExtJpeg}

\* The filter of the for loop (and of the pre-count), lines 58-60.
Qualifies(e) ==
  /\ e.kind = "file"
  /\ ~(Len(e.name) > 0 /\ e.name[1] = ".")
  /\ Lower(Suffix(e.name)) \in {ExtJpg, ExtJpeg}

\* The path rglob yields for an entry.
FilePath(base, e) == base \o e.dir \o <<e.name>>

\* file_path.relative_to(input_dir), for a path below input_dir.
RelativeTo(file_path, base) == SubSeq(file_path, Len(base) + 1, Len(file_path))

\* camera_id = parts[0] if parts else "unknown"
CameraId(rel_path) == IF rel_path # <<>> THEN rel_path[1] ELSE Unknown

\* species = file_path.parent.parent.name if file_path.parent.parent else "unknown"
Species(file_path) ==
  IF Truthy(Parent(Parent(file_path)))
    THEN Name(Parent(Parent(file_path)))
    ELSE Unknown

\* The row with Location taken from rel_path instead of rel_path.parent.
MakeRow_fullpath(base, e) ==
  LET file_path == FilePath(base, e)
      rel_path  == RelativeTo(file_path, base)
  IN  [ image_id |-> format_image_id(file_path, CameraId(rel_path)),
        location |-> PathStr(rel_path),
        camera   |-> extract_camera_number(file_path),
        species  |-> Species(file_path),
        count    |-> Name(Parent(file_path)),
        src      |-> e ]

\* The row the try block builds for a file, lines 62-76; src is a history
\* field (the entry the row was built from), not a column.
MakeRow(base, e) ==
  LET file_path == FilePath(base, e)
      rel_path  == RelativeTo(file_path, base)
  IN  [ image_id |-> format_image_id(file_path, CameraId(rel_path)),
        location |-> PathStr(Parent(rel_path)),
        camera   |-> extract_camera_number(file_path),
        species  |-> Species(file_path),
        count    |-> Name(Parent(file_path)),
        src      |-> e ]

\* The assignment with the label len(df) - 1, which overwrites the last row.
AppendRow_overwrite(d, row) == IF d = <<>> THEN <<row>> ELSE [d EXCEPT ![Len(d)] = row]

\* df.loc[len(df)] = row
AppendRow(d, row) == Append(d, row)

\* The five columns of a row, as to_csv writes them.
Columns(row) ==
  [ image_id |-> row.image_id, location |-> row.location, camera |-> row.camera,
    species |-> row.species, count |-> row.count ]

\* df.sort_values('Image ID'): the rows in ascending order of Image ID. The
\* default sort is not stable, so rows with equal Image ID come out in any
\* order: every sorted arrangement is a possible result.
InsertAt(s, k, r) == SubSeq(s, 1, k) \o <<r>> \o SubSeq(s, k + 1, Len(s))

SortedInserts(s, r) ==
  { InsertAt(s, k, r) :
      k \in { k \in 0..Len(s) :
                /\ \A j \in 1..k : StrLeq(s[j].image_id, r.image_id)
                /\ \A j \in (k + 1)..Len(s) : StrLeq(r.image_id, s[j].image_id) } }

RECURSIVE SortValues(_)
\* The DataFrame left in append order.
SortValues_unsorted(d) == {d}

SortValues(d) ==
  IF d = <<>> THEN {<<>>}
  ELSE UNION { SortedInserts(s, d[Len(d)]) : s \in SortValues(SubSeq(d, 1, Len(d) - 1)) }


\* ------------------------------------------------------------ steps of a run
\* rglob lists a directory before anything inside it: an entry comes after
\* the entry of the directory it lies in. The order is otherwise free.
Reached(e) ==
  IF e.dir = <<>> THEN TRUE
  ELSE Dir(SubSeq(e.dir, 1, Len(e.dir) - 1), e.dir[Len(e.dir)]) \in visited

scan_vars == << visited, df, total_files, pbar_n, reported >>

\* What `reported` holds for the "Input directory does not exist" line.
InputDirMissing == [dir |-> <<>>, name |-> <<>>, kind |-> "input_dir"]

\* The run going on to mkdir without the existence check.
CheckRoot_late ==
  /\ pc = "check"
  /\ pc' = "mkdir"
  /\ UNCHANGED << env_vars, scan_vars, out_dir_made, out_file, exit_code, run,
                  prev_file, fmt_vars >>

\* Lines 44-46, and main's sys.exit(1) on a False result.
CheckRoot ==
  /\ pc = "check"
  /\ IF ~exists
       THEN /\ reported' = reported \cup {InputDirMissing}
            /\ pc' = "done"
            /\ exit_code' = "1"
       ELSE /\ pc' = "mkdir"
            /\ UNCHANGED << reported, exit_code >>
  /\ UNCHANGED << env_vars, visited, df, total_files, pbar_n, out_dir_made,
                  out_file, run, prev_file, fmt_vars >>

\* Lines 48-50: the timestamped output path, its parent directory, the empty
\* DataFrame.
MakeOutputDir ==
  /\ pc = "mkdir"
  /\ out_dir_made' = TRUE
  /\ df' = <<>>
  /\ pc' = "count"
  /\ UNCHANGED << env_vars, visited, total_files, pbar_n, reported, out_file,
                  exit_code, run, prev_file, fmt_vars >>

\* mkdir raises (the parent cannot be created): main's except branch, lines
\* 111-113.
MakeOutputDirRaises ==
  /\ pc = "mkdir"
  /\ pc' = "done"
  /\ exit_code' = "1"
  /\ UNCHANGED << env_vars, scan_vars, out_dir_made, out_file, run, prev_file,
                  fmt_vars >>

\* Lines 52-54: the pre-count for the progress bar.
CountFiles ==
  /\ pc = "count"
  /\ total_files' = Cardinality({ e \in tree : Qualifies(e) })
  /\ pc' = "scan"
  /\ UNCHANGED << env_vars, visited, df, pbar_n, reported, out_dir_made,
                  out_file, exit_code, run, prev_file, fmt_vars >>

\* Lines 57-60: the loop takes an entry the filter rejects.
VisitSkip(e) ==
  /\ pc = "scan"
  /\ e \in tree \ visited
  /\ Reached(e)
  /\ ~Qualifies(e)
  /\ visited' = visited \cup {e}
  /\ UNCHANGED << env_vars, pc, df, total_files, pbar_n, reported,
                  out_dir_made, out_file, exit_code, run, prev_file, fmt_vars >>

\* Lines 61-77: the try block runs to its end for a qualifying file.
VisitRecord(e) ==
  /\ pc = "scan"
  /\ e \in tree \ visited
  /\ Reached(e)
  /\ Qualifies(e)
  /\ e \notin bad
  /\ visited' = visited \cup {e}
  /\ df' = AppendRow(df, MakeRow(input_dir, e))
  /\ pbar_n' = pbar_n + 1
  /\ UNCHANGED << env_vars, pc, total_files, reported, out_dir_made, out_file,
                  exit_code, run, prev_file, fmt_vars >>

\* Lines 61-79 without the try: the exception leaves process_directory and
\* main's except branch exits.
VisitError_abort(e) ==
  /\ pc = "scan"
  /\ e \in tree \ visited
  /\ Reached(e)
  /\ Qualifies(e)
  /\ e \in bad
  /\ pc' = "done"
  /\ exit_code' = "1"
  /\ UNCHANGED << env_vars, scan_vars, out_dir_made, out_file, run, prev_file,
                  fmt_vars >>

\* Lines 61-79: a statement of the try block raises before the row is
\* assigned; the except branch prints the error and the loop goes on.
VisitError(e) ==
  /\ pc = "scan"
  /\ e \in tree \ visited
  /\ Reached(e)
  /\ Qualifies(e)
  /\ e \in bad
  /\ visited' = visited \cup {e}
  /\ reported' = reported \cup {e}
  /\ UNCHANGED << env_vars, pc, df, total_files, pbar_n, out_dir_made,
                  out_file, exit_code, run, prev_file, fmt_vars >>

\* Line 81, when rglob is exhausted.
SortRows ==
  /\ pc = "scan"
  /\ visited = tree
  /\ \E s \in SortValues(df) : df' = s
  /\ pc' = "write"
  /\ UNCHANGED << env_vars, visited, total_files, pbar_n, reported,
                  out_dir_made, out_file, exit_code, run, prev_file, fmt_vars >>

\* Lines 82-84, and main returning normally.
WriteCsv ==
  /\ pc = "write"
  /\ out_file' = [written |-> TRUE, rows |-> [i \in 1..Len(df) |-> Columns(df[i])]]
  /\ pc' = "done"
  /\ exit_code' = "0"
  /\ UNCHANGED << env_vars, scan_vars, out_dir_made, run, prev_file, fmt_vars >>

\* to_csv raises (the file cannot be written): main's except branch.
WriteCsvRaises ==
  /\ pc = "write"
  /\ pc' = "done"
  /\ exit_code' = "1"
  /\ UNCHANGED << env_vars, scan_vars, out_dir_made, out_file, run, prev_file,
                  fmt_vars >>

\* The program is run a second time on the unchanged tree; the first run's
\* output file stays where it is and the second run writes a new one.
RunAgain ==
  /\ pc = "done"
  /\ run = 1
  /\ exit_code = "0"
  /\ run' = 2
  /\ prev_file' = out_file
  /\ pc' = "check"
  /\ visited' = {}
  /\ df' = <<>>
  /\ total_files' = 0
  /\ pbar_n' = 0
  /\ reported' = {}
  /\ out_file' = NoFile
  /\ exit_code' = Running
  /\ UNCHANGED << env_vars, out_dir_made, fmt_vars >>

Init ==
  /\ input_dir \in InputDirs
  /\ exists \in BOOLEAN
  /\ tree \in (IF exists THEN Trees ELSE {{}})
  /\ bad \in SUBSET { e \in tree : Qualifies(e) }
  /\ pc = "check"
  /\ visited = {}
  /\ df = <<>>
  /\ total_files = 0
  /\ pbar_n = 0
  /\ reported = {}
  /\ out_dir_made = FALSE
  /\ out_file = NoFile
  /\ exit_code = Running
  /\ run = 1
  /\ prev_file = NoFile
  /\ fmt_tokens = <<>>
  /\ fmt_name = <<>>
  /\ fmt_cam = <<>>
  /\ fmt_out = NoResult

Next ==
  \/ CheckRoot
  \/ MakeOutputDir
  \/ MakeOutputDirRaises
  \/ CountFiles
  \/ \E e \in tree : VisitSkip(e)
  \/ \E e \in tree : VisitRecord(e)
  \/ \E e \in tree : VisitError(e)
  \/ SortRows
  \/ WriteCsv
  \/ WriteCsvRaises
  \/ RunAgain

Spec == Init /\ [][Next]_vars


\* ------------------------------------------------------------ format_image_id alone
\* The inputs of format_image_id: a file name written as whitespace, tokens
\* separated by whitespace, whitespace, extension.
TokenPool == { <<"1">>, <<"x", ".", "7">> }
SepPool == { <<" ">>, <<" ", " ">>, <<"\t">> }
PadPool == { <<>>, <<" ">> }
FmtExtPool == { <<>>, ExtJpg, <<".", "J", "P", "E", "G">>, <<".", "t", "x", "t">> }
CamPool == { DirA, Unknown }

RECURSIVE JoinWith(_, _)
JoinWith(tokens, sep) ==
  IF tokens = <<>> THEN <<>>
  ELSE IF Len(tokens) = 1 THEN tokens[1]
  ELSE tokens[1] \o sep \o JoinWith(Tail(tokens), sep)

InitFmt ==
  /\ input_dir = <<>>
  /\ exists = FALSE
  /\ tree = {}
  /\ bad = {}
  /\ pc = "format"
  /\ visited = {}
  /\ df = <<>>
  /\ total_files = 0
  /\ pbar_n = 0
  /\ reported = {}
  /\ out_dir_made = FALSE
  /\ out_file = NoFile
  /\ exit_code = Running
  /\ run = 1
  /\ prev_file = NoFile
  /\ \E n \in 0..MaxTokens, sep \in SepPool, lead \in PadPool, trail \in PadPool,
        ext \in FmtExtPool :
       /\ fmt_tokens \in [1..n -> TokenPool]
       \* without an extension the name is the stem only if no token has a dot
       /\ ext = <<>> => \A i \in 1..n : fmt_tokens[i] = <<"1">>
       \* a file name is not empty
       /\ n > 0 \/ ext # <<>>
       /\ fmt_name = lead \o JoinWith(fmt_tokens, sep) \o trail \o ext
  /\ fmt_cam \in CamPool
  /\ fmt_out = NoResult

\* image_id = format_image_id(file_path, camera_id), for a file in directory
\* fmt_cam.
FormatCall ==
  /\ pc = "format"
  /\ fmt_out = NoResult
  /\ fmt_out' = format_image_id(<<fmt_cam, fmt_name>>, fmt_cam)
  /\ UNCHANGED << env_vars, pc, scan_vars, out_dir_made, out_file, exit_code,
                  run, prev_file, fmt_tokens, fmt_name, fmt_cam >>

NextFmt == FormatCall

SpecFmt == InitFmt /\ [][NextFmt]_vars

\* ------------------------------------------------------------ claims
\* The entries of the pool that are qualifying files: regular, not hidden,
\* extension .jpg or .jpeg in any case.
QualifyingNames == { NameSixJpg, NameSixJpeg, NameSevenJPG, NameImg, NameUpper }
IsQualifying(e) == e.kind = "file" /\ e.name \in QualifyingNames

\* The names of the pool with six or more whitespace-separated tokens.
SixTokenNames == { NameSixJpg, NameSixJpeg, NameSevenJPG }

\* The rows of df built from entry e.
RowsOf(e) == { i \in 1..Len(df) : df[i].src = e }

\* Whether a sequence of rows is in ascending order of Image ID.
IsSorted(rows) ==
  \A i \in 1..(Len(rows) - 1) : StrLeq(rows[i].image_id, rows[i + 1].image_id)

\* The rows of a file as a multiset.
RowBag(rows) ==
  [ r \in { rows[i] : i \in 1..Len(rows) } |->
      Cardinality({ i \in 1..Len(rows) : rows[i] = r }) ]

\* Whether s begins with prefix.
StartsWith(s, prefix) ==
  Len(s) >= Len(prefix) /\ SubSeq(s, 1, Len(prefix)) = prefix

\* C1: when no file raises, every qualifying file the loop has taken has
\* exactly one row and every other entry has none; the file written has one
\* row per qualifying file of the tree.
C1_OneRowPerQualifyingFile ==
  bad = {} =>
    /\ \A i \in 1..Len(df) : df[i].src \in tree
    /\ \A e \in tree :
         Cardinality(RowsOf(e)) = (IF IsQualifying(e) /\ e \in visited THEN 1 ELSE 0)
    /\ out_file # NoFile =>
         /\ visited = tree
         /\ Len(out_file.rows) = Cardinality({ e \in tree : IsQualifying(e) })

\* C1 witness: a file was written for a tree that holds a qualifying file with
\* an upper-case extension and a hidden .jpg file, and it has one row.
C1_Witness ==
  /\ bad = {}
  /\ out_file # NoFile
  /\ File(<<DirA>>, NameUpper) \in tree
  /\ File(<<DirA, DirF, DirT>>, NameHidden) \in tree
  /\ Len(out_file.rows) = 1

\* C2: the rows handed to to_csv, and the rows of the file written, are in
\* ascending order of Image ID; rows are appended only during the scan, before
\* the sort, and the file is written only from the sorted DataFrame and holds
\* all its rows.
C2_State ==
  /\ pc = "write" => IsSorted(df)
  /\ out_file # NoFile => IsSorted(out_file.rows) /\ Len(out_file.rows) = Len(df)

C2_Step ==
  /\ Len(df') > Len(df) => pc = "scan" /\ pc' = "scan" /\ out_file = NoFile
  /\ (out_file' # out_file /\ out_file' # NoFile) =>
       /\ pc = "write"
       /\ IsSorted(df)
       /\ out_file'.rows = [i \in 1..Len(df) |-> Columns(df[i])]

\* C2: the output is sorted by Image ID for every traversal order, and the sort
\* comes after the last append and before the write.
C2_SortedOutput == [](C2_State) /\ [][C2_Step]_vars

\* C2 witness: a file of two rows with different Image IDs was written.
C2_Witness ==
  /\ out_file # NoFile
  /\ Len(out_file.rows) = 2
  /\ StrLess(out_file.rows[1].image_id, out_file.rows[2].image_id)

\* C3: with a missing input directory the run reports the error and exits 1
\* from the existence check, with no traversal, no output directory and no
\* output file; in every run the output directory is created and the file
\* written only after the existence check has passed.
C3_State ==
  ~exists =>
    /\ ~out_dir_made
    /\ out_file = NoFile
    /\ visited = {}
    /\ df = <<>>
    /\ pc \in {"check", "done"}
    /\ pc = "done" => exit_code = "1" /\ InputDirMissing \in reported

C3_Step ==
  /\ (out_dir_made' /\ ~out_dir_made) => exists /\ pc = "mkdir"
  /\ (out_file' # NoFile /\ out_file = NoFile) => exists /\ pc = "write"
  /\ (pc = "check" /\ pc' # "check") => pc' = (IF exists THEN "mkdir" ELSE "done")

\* C3: a missing input directory fails the run at once with no output, and
\* the existence check precedes directory creation and writing.
C3_MissingRootFails == [](C3_State) /\ [][C3_Step]_vars

\* C3 witness: a run on a missing input directory has ended.
C3_Witness == ~exists /\ pc = "done" /\ exit_code = "1"

\* C4: a qualifying file whose processing raises is reported and gets no row,
\* the step leaves df as it was and the scan in progress; the scan ends only
\* when every entry was taken, every other qualifying file then has its row,
\* and a run that exits 0 has written the file.
C4_State ==
  /\ \A e \in bad \cap visited : RowsOf(e) = {} /\ e \in reported
  /\ (pc = "write" \/ out_file # NoFile) =>
       /\ visited = tree
       /\ \A e \in tree :
            Cardinality(RowsOf(e)) = (IF IsQualifying(e) /\ e \notin bad THEN 1 ELSE 0)
  /\ (pc = "done" /\ exit_code = "0") => out_file # NoFile

C4_Step ==
  /\ (pc = "scan" /\ reported' # reported) =>
       /\ df' = df
       /\ pc' = "scan"
       /\ exit_code' = Running
       /\ \E e \in bad : reported' = reported \cup {e} /\ visited' = visited \cup {e}
  /\ pc = "scan" => pc' \in {"scan", "write"}
  /\ (pc = "scan" /\ pc' = "write") => visited = tree

C5_FormatImageId ==
  fmt_out # NoResult =>
    IF Len(fmt_tokens) >= 6
      THEN fmt_out = fmt_cam \o <<"_">>
                     \o fmt_tokens[1] \o <<"-">> \o fmt_tokens[2] \o <<"-">> \o fmt_tokens[3]
                     \o <<"_">>
                     \o fmt_tokens[4] \o <<"-">> \o fmt_tokens[5] \o <<"-">> \o fmt_tokens[6]
                     \o <<"_", "J", "P", "E", "G">>
      ELSE fmt_out = fmt_name

\* C5 witness: format_image_id has returned for a name of seven tokens, the
\* last with a dot in it, separated by tabs.
C5_Witness ==
  /\ fmt_out # NoResult
  /\ Len(fmt_tokens) = 7
  /\ fmt_tokens[7] = <<"x", ".", "7">>
  /\ \E i \in 1..Len(fmt_name) : fmt_name[i] = "\t"
  /\ fmt_out # fmt_name


\* C6 (as claimed): Camera is the great-grandparent directory's name for a
\* file three or more levels below the root and "unknown" for a file fewer
\* than three levels below it.
C6_CameraOrUnknown ==
  \A i \in 1..Len(df) :
    LET d == df[i].src.dir
    IN  df[i].camera = (IF Len(d) >= 3 THEN d[Len(d) - 2] ELSE Unknown)

\* C7 (as claimed): Species is the grandparent directory's name for a file
\* two or more levels below the root and "unknown" otherwise; Count is the
\* name of the directory the file is in.
C7_SpeciesOrUnknown ==
  \A i \in 1..Len(df) :
    LET d == df[i].src.dir
    IN  /\ df[i].species = (IF Len(d) >= 2 THEN d[Len(d) - 1] ELSE Unknown)
        /\ df[i].count = (IF d # <<>> THEN d[Len(d)] ELSE Name(input_dir))

C9_SameRows ==
  (run = 2 /\ out_file # NoFile) => RowBag(out_file.rows) = RowBag(prev_file.rows)

\* C9 witness: the second run wrote its two rows in another order than the
\* first.
C9_Witness ==
  /\ run = 2
  /\ out_file # NoFile
  /\ Len(out_file.rows) = 2
  /\ out_file # prev_file

\* C10 (as claimed): camera_id is the first directory of the relative path,
\* and "unknown" for a file directly in the root, whose Image ID then begins
\* with "unknown_" when its name has six or more tokens.
C10_CameraIdOrUnknown ==
  \A i \in 1..Len(df) :
    LET e == df[i].src
        claimed == IF e.dir = <<>> THEN Unknown ELSE e.dir[1]
    IN  /\ CameraId(RelativeTo(FilePath(input_dir, e), input_dir)) = claimed
        /\ e.name \in SixTokenNames => StartsWith(df[i].image_id, claimed \o <<"_">>)

====
